---- MODULE Spec2Model ----
(***************************************************************************)
(* Model of forwarder.py: a Discord client that relays messages of one     *)
(* source channel to the webhooks of every client whose name list contains *)
(* the bot name found in the message.                                      *)
(*                                                                         *)
(* Text is modelled as a sequence of one-character strings, so that        *)
(* strip(), lower(), split(',') and the regular expression are computed    *)
(* character by character.  An Optional[...] value is modelled as a set    *)
(* with at most one member: None is {} and a value x is {x}.               *)
(***************************************************************************)
EXTENDS Integers, Sequences, FiniteSets, TLC

VARIABLES
    clients_config,   \* Forwarder.clients_config: ordered dict as a sequence of entries
    pc,               \* position of the on_message coroutine
    message,          \* the discord.Message being handled ({} when none yet)
    extract_calls,    \* texts handed to extract_bot_name_from_text for this message
    bot_name,         \* local bot_name of on_message (Optional)
    lname,            \* local lname of on_message
    ci,               \* index of the client the loop of line 129 is at
    ui,               \* index of the url the loop of line 133 is at
    match_found,      \* local match_found of on_message
    attempts,         \* urls send_to_webhook was called with for this message, in order
    sends,            \* webhook.send calls made for this message: url and payload
    inflight,         \* indices in sends of the webhook.send calls not yet resolved
    log,              \* logger records emitted for this message
    raised,           \* the exception that left on_message ({} when none)
    last,             \* message and attempts of the previously handled message
    fn_in,            \* argument of the function under study (function specifications)
    fn_out,           \* its result
    fn_done           \* whether it has been applied

vars == <<clients_config, pc, message, extract_calls, bot_name, lname, ci, ui,
          match_found, attempts, sends, inflight, log, raised, last,
          fn_in, fn_out, fn_done>>

handler_vars == <<clients_config, pc, message, extract_calls, bot_name, lname, ci, ui,
                  match_found, attempts, sends, inflight, log, raised, last>>

fn_vars == <<fn_in, fn_out, fn_done>>

-----------------------------------------------------------------------------
(* Optional values *)

None == {}

Some(x) == {x}

TheVal(o) == CHOOSE x \in o : TRUE

-----------------------------------------------------------------------------
(* Characters and strings *)

UpperSeq == <<"A","B","C","D","E","F","G","H","I","J","K","L","M",
              "N","O","P","Q","R","S","T","U","V","W","X","Y","Z">>

LowerSeq == <<"a","b","c","d","e","f","g","h","i","j","k","l","m",
              "n","o","p","q","r","s","t","u","v","w","x","y","z">>

\* the characters the class "whitespace" of re matches and str.strip()
\* removes, among those of the model
Whitespace == {" ", "\t"}

\* the lowercase letter of each uppercase letter
UpperToLower ==
    [c \in {UpperSeq[i] : i \in DOMAIN UpperSeq} |->
        LowerSeq[CHOOSE i \in DOMAIN UpperSeq : UpperSeq[i] = c]]

LowerChar(c) == IF c \in DOMAIN UpperToLower THEN UpperToLower[c] ELSE c

\* str.lower()
Lower(s) == [i \in DOMAIN s |-> LowerChar(s[i])]

\* str.strip(): drop the leading and the trailing whitespace
Strip(s) ==
    LET n == Len(s)
        nonws == {i \in 1..n : s[i] \notin Whitespace}
    IN  IF nonws = {} THEN <<>>
        ELSE LET a == CHOOSE i \in nonws : \A j \in nonws : i <= j
                 b == CHOOSE i \in nonws : \A j \in nonws : j <= i
             IN  SubSeq(s, a, b)

\* index just after the longest run of characters of S that starts at j
RunEnd(s, j, S) ==
    CHOOSE k \in j..(Len(s) + 1) :
        /\ \A x \in j..(k - 1) : s[x] \in S
        /\ (k = Len(s) + 1 \/ s[k] \notin S)

\* index just after the longest run of characters outside S that starts at j
RunEndNot(s, j, S) ==
    CHOOSE k \in j..(Len(s) + 1) :
        /\ \A x \in j..(k - 1) : s[x] \notin S
        /\ (k = Len(s) + 1 \/ s[k] \in S)

\* the literal lit stands at position i of s, case being ignored (re.IGNORECASE)
LitAtCI(s, i, lit) ==
    /\ i >= 1
    /\ i + Len(lit) - 1 <= Len(s)
    /\ \A x \in 1..Len(lit) : LowerChar(s[i + x - 1]) = LowerChar(lit[x])

\* the two characters ** stand at position i of s
StarsAt(s, i) == i >= 1 /\ i + 1 <= Len(s) /\ s[i] = "*" /\ s[i + 1] = "*"

BotLit == <<"B","o","t">>

HasSuccessfullyLit == <<"h","a","s"," ","s","u","c","c","e","s","s","f","u","l","l","y">>

-----------------------------------------------------------------------------
\* extract_bot_name_from_text, lines 34-43.  The pattern of line 40 is written
\* here as  Bot WS+ [BOLD] GROUP [BOLD] WS+ "has successfully"  where WS+ is one
\* or more whitespace, [BOLD] an optional pair of asterisks and GROUP one or
\* more characters that are neither whitespace nor asterisk.

\* WS+ "has successfully" matches at position q
TailAt(s, q) ==
    LET r == RunEnd(s, q, Whitespace)
    IN  r > q /\ LitAtCI(s, r, HasSuccessfullyLit)

\* GROUP [BOLD] WS+ "has successfully" at position a: the group as an Optional.
\* GROUP is greedy; giving a character back leaves a character that is neither
\* asterisk nor whitespace in front of [BOLD] WS+, so only the longest run can
\* match.  [BOLD] is tried taken first, then skipped.
GroupAt(s, a) ==
    LET b == RunEndNot(s, a, Whitespace \cup {"*"})
    IN  IF b = a THEN None
        ELSE IF StarsAt(s, b) /\ TailAt(s, b + 2) THEN Some(SubSeq(s, a, b - 1))
        ELSE IF TailAt(s, b) THEN Some(SubSeq(s, a, b - 1))
        ELSE None

\* the whole pattern anchored at position i: the group as an Optional.
\* WS+ is greedy; giving a whitespace back leaves a whitespace in front of
\* [BOLD] GROUP, so only the longest run can match.
MatchAt(s, i) ==
    IF ~LitAtCI(s, i, BotLit) THEN None
    ELSE LET p == RunEnd(s, i + 3, Whitespace)
         IN  IF p = i + 3 THEN None
             ELSE IF StarsAt(s, p) /\ GroupAt(s, p + 2) # None THEN GroupAt(s, p + 2)
             ELSE GroupAt(s, p)

\* a plausible slip: the token is normalised inside the extractor
extract_lowercased(text) ==
    IF text = <<>> THEN None
    ELSE LET starts == {i \in 1..Len(text) : MatchAt(text, i) # None}
         IN  IF starts = {} THEN None
             ELSE {Lower(t) : t \in MatchAt(text, CHOOSE i \in starts : \A j \in starts : i <= j)}

extract_bot_name_from_text(text) ==
    IF text = <<>> THEN None
    ELSE LET starts == {i \in 1..Len(text) : MatchAt(text, i) # None}
         IN  IF starts = {} THEN None
             ELSE MatchAt(text, CHOOSE i \in starts : \A j \in starts : i <= j)

-----------------------------------------------------------------------------
(* The on_message coroutine is at rest and has handled nothing. *)

HandlerIdle ==
    /\ clients_config = <<>>
    /\ pc = "idle"
    /\ message = None
    /\ extract_calls = <<>>
    /\ bot_name = None
    /\ lname = <<>>
    /\ ci = 0
    /\ ui = 0
    /\ match_found = FALSE
    /\ attempts = <<>>
    /\ sends = <<>>
    /\ inflight = {}
    /\ log = <<>>
    /\ raised = None
    /\ last = None

-----------------------------------------------------------------------------
(* Specification of extract_bot_name_from_text as a function of its text.  *)
(* The texts are every concatenation of one choice for each part of the    *)
(* phrase, two phrases in a row, and the empty text.                       *)

PrefixParts == {<<>>, <<"x"," ">>, <<"R","o">>}

BotParts == {BotLit, <<"b","O","T">>, <<"B","o">>}

GapParts == {<<>>, <<" ">>, <<" ","\t">>}

BoldParts == {<<>>, <<"*","*">>, <<"*">>}

TokenParts == {<<>>, <<"F","o">>, <<"a","*","b">>, <<"F"," ","G">>, <<"h","a","s">>}

PhraseParts ==
    { HasSuccessfullyLit,
      <<"H","A","S"," ","S","U","C","C","E","S","S","F","U","L","L","Y">>,
      <<"h","a","s","\t","s","u","c","c","e","s","s","f","u","l","l","y">>,
      <<"h","a","s">> }

SuffixParts == {<<>>, <<" ","c">>}

PhraseTexts ==
    { pre \o bot \o g1 \o b1 \o tok \o b2 \o g2 \o phr \o suf :
        pre \in PrefixParts, bot \in BotParts, g1 \in GapParts, b1 \in BoldParts,
        tok \in TokenParts, b2 \in BoldParts, g2 \in GapParts, phr \in PhraseParts,
        suf \in SuffixParts }

Sentence(tok, ok) ==
    BotLit \o <<" ">> \o tok \o <<" ">> \o (IF ok THEN HasSuccessfullyLit ELSE <<"h","a","s">>)

TwoPhraseTexts ==
    { Sentence(t1, ok1) \o <<" ">> \o Sentence(t2, ok2) :
        t1 \in {<<"A">>, <<"x"," ","y">>, <<"B","o","t">>}, ok1 \in BOOLEAN,
        t2 \in {<<"Z">>, <<"*","*","Q","*","*">>}, ok2 \in BOOLEAN }

Texts == PhraseTexts \cup TwoPhraseTexts \cup {<<>>}

InitExtract ==
    /\ HandlerIdle
    /\ fn_in \in Texts
    /\ fn_out = None
    /\ fn_done = FALSE

Extract ==
    /\ ~fn_done
    /\ fn_out' = extract_bot_name_from_text(fn_in)
    /\ fn_done' = TRUE
    /\ UNCHANGED <<fn_in, handler_vars>>

SpecExtract == InitExtract /\ [][Extract]_vars

-----------------------------------------------------------------------------
(* C7 *)

\* g is: one or more whitespace, an optional **, the token g[a..b] of characters
\* that are neither whitespace nor asterisk, an optional **, one or more whitespace
C7_GapHolds(g, a, b) ==
    LET n == Len(g)
    IN  /\ 1 <= a /\ a <= b /\ b <= n
        /\ \A x \in a..b : g[x] \notin Whitespace \cup {"*"}
        /\ \/ a >= 2 /\ \A x \in 1..(a - 1) : g[x] \in Whitespace
           \/ a >= 4 /\ g[a - 1] = "*" /\ g[a - 2] = "*"
                     /\ \A x \in 1..(a - 3) : g[x] \in Whitespace
        /\ \/ b <= n - 1 /\ \A x \in (b + 1)..n : g[x] \in Whitespace
           \/ b <= n - 3 /\ g[b + 1] = "*" /\ g[b + 2] = "*"
                         /\ \A x \in (b + 3)..n : g[x] \in Whitespace

\* the tokens standing between the Bot at position i and a following "has successfully"
C7_TokensAt(text, i) ==
    IF ~LitAtCI(text, i, BotLit) THEN {}
    ELSE UNION { LET g == SubSeq(text, i + 3, r - 1)
                 IN  { SubSeq(g, ab[1], ab[2]) :
                         ab \in { x \in (1..Len(g)) \X (1..Len(g)) :
                                    C7_GapHolds(g, x[1], x[2]) } } :
                 r \in { q \in (i + 3)..Len(text) : LitAtCI(text, q, HasSuccessfullyLit) } }

C7_Anchors(text) == {i \in 1..Len(text) : C7_TokensAt(text, i) # {}}

C7_HasPhrase(text) == \E r \in 1..Len(text) : LitAtCI(text, r, HasSuccessfullyLit)

\* C7: the extractor returns the token, casing kept and bold markers stripped,
\* that stands between the first Bot (any case) and a "has successfully" (any
\* case) separated from it by whitespace and optional bold markers alone; it
\* returns nothing when no Bot is followed that way, in particular for the
\* empty text, for a text without the phrase, for "Bot has successfully" and
\* for "Bot F G has successfully".
C7_ExtractorContract ==
    fn_done =>
        /\ LET anchors == C7_Anchors(fn_in)
           IN  IF anchors = {} THEN fn_out = None
               ELSE fn_out = C7_TokensAt(fn_in, CHOOSE i \in anchors :
                                                   \A j \in anchors : i <= j)
        /\ Cardinality(fn_out) <= 1
        /\ fn_in = <<>> => fn_out = None
        /\ ~C7_HasPhrase(fn_in) => fn_out = None
        /\ fn_in = BotLit \o <<" ">> \o HasSuccessfullyLit => fn_out = None
        /\ fn_in = BotLit \o <<" ">> \o <<"F"," ","G">> \o <<" ">> \o HasSuccessfullyLit
              => fn_out = None

\* a bold, mixed-case token has been extracted from a phrase in capitals
C7_Witness ==
    /\ fn_done
    /\ fn_in = <<"x"," ">> \o <<"b","O","T">> \o <<" ","\t">> \o <<"*","*">> \o <<"F","o">>
                 \o <<"*","*">> \o <<" ","\t">>
                 \o <<"H","A","S"," ","S","U","C","C","E","S","S","F","U","L","L","Y">>
    /\ fn_out = Some(<<"F","o">>)

-----------------------------------------------------------------------------
(* The file system as load_names sees it: a function from paths to files.  *)
(* A file is its lines (without the line ends) and, when reading it fails, *)
(* the number of lines the iteration of line 22 delivers before open() or  *)
(* the iteration raises: Some(0) is a file open() rejects or whose first   *)
(* read fails, Some(k) a file whose read fails after k lines.              *)

File(lines, error_after) == [lines |-> lines, error_after |-> error_after]

\* load_names, lines 17-31: the names and the logger record it emits
load_names(fs, file_path) ==
    IF file_path \in DOMAIN fs
    THEN LET f == fs[file_path]
             read == IF f.error_after = None THEN Len(f.lines) ELSE TheVal(f.error_after)
             names == { Lower(Strip(f.lines[i])) :
                          i \in {j \in 1..read : Strip(f.lines[j]) # <<>>} }
         IN  [names |-> names,
              record |-> IF f.error_after = None THEN "info_loaded" ELSE "error_reading"]
    ELSE [names |-> {}, record |-> "warning_not_found"]

-----------------------------------------------------------------------------
(* Specification of load_names as a function of the file it is given.      *)

MaxLines == 3

LineChoices ==
    { <<"F","o","o">>, <<"f","o","o">>, <<>>, <<" "," ","B","a","r"," "," ">>,
      <<" ","\t">>, <<"\t","b","A","r">> }

LinesUpTo(n) == UNION { [1..k -> LineChoices] : k \in 0..n }

NamesPath == <<"/","n">>

FilesUpTo(n) ==
    { File(ls, e) : ls \in LinesUpTo(n), e \in {None} \cup {Some(k) : k \in 0..n} }

NamesInputs ==
    {<<>>} \cup { [p \in {NamesPath} |-> f] :
                    f \in {g \in FilesUpTo(MaxLines) :
                             g.error_after = None \/ TheVal(g.error_after) <= Len(g.lines)} }

InitNames ==
    /\ HandlerIdle
    /\ fn_in \in NamesInputs
    /\ fn_out = None
    /\ fn_done = FALSE

LoadNames ==
    /\ ~fn_done
    /\ fn_out' = Some(load_names(fn_in, NamesPath))
    /\ fn_done' = TRUE
    /\ UNCHANGED <<fn_in, handler_vars>>

SpecNames == InitNames /\ [][LoadNames]_vars

-----------------------------------------------------------------------------
(* C6 *)

C6_Normalised(lines) == { Lower(Strip(lines[i])) : i \in {j \in 1..Len(lines) : Strip(lines[j]) # <<>>} }

\* C6: load_names returns exactly the set of trimmed, lowercased, non-blank
\* lines of the file, and the empty set for a file that is absent or cannot be
\* read.  (load_names has no way to raise in the model: every exception of the
\* read is caught at line 27.)
C6_LoadNamesContract ==
    fn_done =>
        LET names == TheVal(fn_out).names
        IN  IF NamesPath \notin DOMAIN fn_in THEN names = {}
            ELSE IF fn_in[NamesPath].error_after # None THEN names = {}
            ELSE names = C6_Normalised(fn_in[NamesPath].lines)

\* the part of C6 the code keeps: a file read to its end gives exactly the
\* normalised lines, and the lines Foo, foo, blank give {foo}
C6_ReadableFile ==
    fn_done /\ NamesPath \in DOMAIN fn_in /\ fn_in[NamesPath].error_after = None =>
        /\ TheVal(fn_out).names = C6_Normalised(fn_in[NamesPath].lines)
        /\ fn_in[NamesPath].lines = << <<"F","o","o">>, <<"f","o","o">>, <<>> >>
              => TheVal(fn_out).names = { <<"f","o","o">> }

-----------------------------------------------------------------------------
(* load_clients_from_env, lines 143-186.  os.environ is a sequence of      *)
(* <<key, value>> pairs with distinct keys, in the order items() gives     *)
(* them; the returned dict is a sequence of entries in insertion order.    *)

WebhookPrefix == <<"W","E","B","H","O","O","K","_">>

ListPrefix == <<"L","I","S","T","_">>

\* directory of the script, line 157
BaseDir == <<"/","d">>

\* str.startswith
StartsWith(s, prefix) ==
    Len(s) >= Len(prefix) /\ SubSeq(s, 1, Len(prefix)) = prefix

\* os.getenv(key): the value as an Optional
GetEnv(env, key) == { env[i][2] : i \in {j \in DOMAIN env : env[j][1] = key} }

\* os.path.isabs
IsAbs(path) == StartsWith(path, <<"/">>)

\* os.path.join(base_dir, path) for a relative path
PathJoin(base, path) == base \o <<"/">> \o path

\* str.split(','): the pieces between the commas, in order
SplitComma(v) ==
    LET commas == {i \in 1..Len(v) : v[i] = ","}
        n == Cardinality(commas)
        \* position of the k-th comma; 0 and Len(v) + 1 stand for the two ends
        at(k) == IF k = 0 THEN 0
                 ELSE IF k = n + 1 THEN Len(v) + 1
                 ELSE CHOOSE c \in commas : Cardinality({d \in commas : d < c}) = k - 1
    IN  [k \in 1..(n + 1) |-> SubSeq(v, at(k - 1) + 1, at(k) - 1)]

\* line 179: [url.strip() for url in value.split(',') if url.strip()]
ParseWebhooks(value) ==
    LET stripped == [k \in DOMAIN SplitComma(value) |-> Strip(SplitComma(value)[k])]
    IN  SelectSeq(stripped, LAMBDA u : u # <<>>)

\* clients[client_name] = entry on an insertion-ordered dict
DictSet(clients, entry) ==
    IF \E i \in DOMAIN clients : clients[i].name = entry.name
    THEN [i \in DOMAIN clients |->
            IF clients[i].name = entry.name THEN entry ELSE clients[i]]
    ELSE Append(clients, entry)

\* a plausible variant of lines 167-169: a WEBHOOK_ variable without its LIST_
\* variable is registered with no names instead of being skipped
LoadOneRegistering(env, fs, k, acc) ==
    LET key == env[k][1]
        value == env[k][2]
    IN  IF ~StartsWith(key, WebhookPrefix) THEN acc
        ELSE
            LET client_name == SubSeq(key, Len(WebhookPrefix) + 1, Len(key))
                list_env_key == ListPrefix \o client_name
                list_path_raw == GetEnv(env, list_env_key)
            IN  IF list_path_raw = None \/ TheVal(list_path_raw) = <<>>
                THEN [clients |-> DictSet(acc.clients,
                                          [name |-> client_name,
                                           webhook |-> ParseWebhooks(value),
                                           names |-> {}]),
                      records |-> Append(acc.records, <<"warning_no_list", client_name>>)]
                ELSE
                    LET raw == TheVal(list_path_raw)
                        list_path == IF ~IsAbs(raw) THEN PathJoin(BaseDir, raw) ELSE raw
                        loaded == load_names(fs, list_path)
                    IN  [clients |-> DictSet(acc.clients,
                                             [name |-> client_name,
                                              webhook |-> ParseWebhooks(value),
                                              names |-> loaded.names]),
                         records |-> Append(acc.records, <<loaded.record, client_name>>)]

\* one iteration of the loop of line 160, on the k-th environment variable:
\* acc is the dict built so far and the logger records emitted so far
LoadOne(env, fs, k, acc) ==
    LET key == env[k][1]
        value == env[k][2]
    IN  IF ~StartsWith(key, WebhookPrefix) THEN acc
        ELSE
            LET client_name == SubSeq(key, Len(WebhookPrefix) + 1, Len(key))
                list_env_key == ListPrefix \o client_name
                list_path_raw == GetEnv(env, list_env_key)
            IN  IF list_path_raw = None \/ TheVal(list_path_raw) = <<>>
                THEN [acc EXCEPT !.records = Append(@, <<"warning_no_list", client_name>>)]
                ELSE
                    LET raw == TheVal(list_path_raw)
                        list_path == IF ~IsAbs(raw) THEN PathJoin(BaseDir, raw) ELSE raw
                        loaded == load_names(fs, list_path)
                    IN  [clients |-> DictSet(acc.clients,
                                             [name |-> client_name,
                                              webhook |-> ParseWebhooks(value),
                                              names |-> loaded.names]),
                         records |-> Append(acc.records, <<loaded.record, client_name>>)]

RECURSIVE LoadFrom(_, _, _, _)
LoadFrom(env, fs, k, acc) ==
    IF k > Len(env) THEN acc
    ELSE LoadFrom(env, fs, k + 1, LoadOne(env, fs, k, acc))

\* the returned dict and the logger records emitted
load_clients_from_env(env, fs) ==
    LoadFrom(env, fs, 1, [clients |-> <<>>, records |-> <<>>])

-----------------------------------------------------------------------------
(* Specification of load_clients_from_env as a function of the environment *)
(* and the file system.                                                    *)

MaxEnv == 4

ClientA == <<"A">>

ClientB == <<"B">>

EnvPairs ==
    { <<WebhookPrefix \o c, v>> :
        c \in {ClientA, ClientB},
        v \in { <<"u">>, <<"u",","," ","v">>, <<" ",",","v",",",",">>, <<>> } }
    \cup
    { <<ListPrefix \o c, v>> :
        c \in {ClientA, ClientB},
        v \in { <<"a">>, <<"/","b">>, <<>> } }
    \cup
    { << <<"T","O","K","E","N">>, <<"x">> >> }

EnvsUpTo(n) ==
    { e \in UNION { [1..k -> EnvPairs] : k \in 0..n } :
        \A i, j \in DOMAIN e : i # j => e[i][1] # e[j][1] }

LoadFileSystems ==
    { (PathJoin(BaseDir, <<"a">>) :> File(<< <<"F","o","o">>, <<" ","b","a","r">> >>, None))
        @@ (<<"/","b">> :> File(<< <<"Z","e","d">>, <<"f","o","o">> >>, None)),
      (PathJoin(BaseDir, <<"a">>) :> File(<< <<"F","o","o">> >>, Some(0))),
      (<<"a">> :> File(<< <<"f","o","o">> >>, None)) }

InitLoad ==
    /\ HandlerIdle
    /\ fn_in \in [env : EnvsUpTo(MaxEnv), fs : LoadFileSystems]
    /\ fn_out = None
    /\ fn_done = FALSE

LoadClients ==
    /\ ~fn_done
    /\ fn_out' = Some(load_clients_from_env(fn_in.env, fn_in.fs))
    /\ fn_done' = TRUE
    /\ UNCHANGED <<fn_in, handler_vars>>

SpecLoad == InitLoad /\ [][LoadClients]_vars

-----------------------------------------------------------------------------
(* C4 *)

\* the positions of the WEBHOOK_<NAME> variables of the environment
C4_WebhookVars(env) == {k \in DOMAIN env : StartsWith(env[k][1], WebhookPrefix)}

C4_NameOf(env, k) == SubSeq(env[k][1], Len(WebhookPrefix) + 1, Len(env[k][1]))

\* LIST_<NAME> is missing or empty
C4_NoList(env, name) ==
    \A i \in DOMAIN env : env[i][1] = ListPrefix \o name => env[i][2] = <<>>

C4_Registered(clients, name) == \E i \in DOMAIN clients : clients[i].name = name

\* C4 as claimed: every WEBHOOK_<NAME> variable gives a key <NAME> of the
\* registry; without a LIST_<NAME> the entry has no names and a diagnostic is
\* emitted.
C4_EveryWebhookRegistered ==
    fn_done =>
        LET env == fn_in.env
            out == TheVal(fn_out)
        IN  \A k \in C4_WebhookVars(env) :
                /\ C4_Registered(out.clients, C4_NameOf(env, k))
                /\ C4_NoList(env, C4_NameOf(env, k)) =>
                      /\ \A i \in DOMAIN out.clients :
                            out.clients[i].name = C4_NameOf(env, k)
                                => out.clients[i].names = {}
                      /\ \E r \in DOMAIN out.records :
                            out.records[r] = <<"warning_no_list", C4_NameOf(env, k)>>

\* C4 as amended: the keys of the registry are exactly the <NAME> whose
\* WEBHOOK_<NAME> and non-empty LIST_<NAME> are both set, in the order of the
\* WEBHOOK_ variables; a WEBHOOK_<NAME> without its LIST_<NAME> is not a key and
\* a diagnostic is emitted for it; every registered entry is what the two
\* variables of that destination give on their own.
C4_PairsRegistered ==
    fn_done =>
        LET env == fn_in.env
            out == TheVal(fn_out)
        IN  /\ \A k \in C4_WebhookVars(env) :
                  IF C4_NoList(env, C4_NameOf(env, k))
                  THEN /\ ~C4_Registered(out.clients, C4_NameOf(env, k))
                       /\ \E r \in DOMAIN out.records :
                             out.records[r] = <<"warning_no_list", C4_NameOf(env, k)>>
                  ELSE \E i \in DOMAIN out.clients :
                          /\ out.clients[i].name = C4_NameOf(env, k)
                          /\ \E l \in DOMAIN env :
                                /\ env[l][1] = ListPrefix \o C4_NameOf(env, k)
                                /\ <<out.clients[i]>> =
                                      load_clients_from_env(<<env[l], env[k]>>, fn_in.fs).clients
            /\ \A i \in DOMAIN out.clients :
                  \E k \in C4_WebhookVars(env) : C4_NameOf(env, k) = out.clients[i].name
            /\ \A i, j \in DOMAIN out.clients :
                  i < j => \E k, l \in C4_WebhookVars(env) :
                              /\ k < l
                              /\ C4_NameOf(env, k) = out.clients[i].name
                              /\ C4_NameOf(env, l) = out.clients[j].name

\* WEBHOOK_A stands without LIST_A next to a complete destination B: B alone
\* is loaded, with its names
C4_Witness ==
    /\ fn_done
    /\ \E k \in DOMAIN fn_in.env : fn_in.env[k][1] = WebhookPrefix \o ClientA
    /\ \A k \in DOMAIN fn_in.env : fn_in.env[k][1] # ListPrefix \o ClientA
    /\ Len(TheVal(fn_out).clients) = 1
    /\ TheVal(fn_out).clients[1].name = ClientB
    /\ TheVal(fn_out).clients[1].names = { <<"f","o","o">>, <<"b","a","r">> }
    /\ TheVal(fn_out).clients[1].webhook = << <<"u">>, <<"v">> >>

-----------------------------------------------------------------------------
(* Forwarder.on_message, lines 83-140, and send_to_webhook, lines 46-58.   *)
(*                                                                         *)
(* A message is [author, channel, content, embeds]; an embed is the dict   *)
(* of Embed.to_dict(): a function whose domain holds the keys that are     *)
(* set.  The handlers of different messages share no variable that any of  *)
(* them writes (clients_config is only read), so the model follows one     *)
(* handler at a time: pc is "idle" between two messages.                   *)

\* self.user
Self == "bot_user"

\* self.source_channel_id, line 75
source_channel_id == "chan_source"

\* discord.Webhook.from_url, line 49, raises ValueError on a url that is not a
\* webhook url.  In the model the urls that start with u stand for well-formed
\* webhook urls and all others for urls from_url rejects.
ValidWebhookUrl(url) == url # <<>> /\ url[1] = "u"

\* a plausible slip in the filter: only the bot's own messages are dropped
DroppedOwnOnly(msg) == msg.author = Self

\* a plausible addition to the filter: a message equal to the one handled
\* before is dropped
DroppedOrRepeated(msg) ==
    \/ msg.author = Self
    \/ msg.channel # source_channel_id
    \/ message = Some(msg)

\* lines 84-89: the message is dropped before anything is done
Dropped(msg) ==
    \/ msg.author = Self
    \/ msg.channel # source_channel_id

\* lines 107-111: the candidates of the fields of an embed, from the k-th on
RECURSIVE FieldCandidates(_, _)
FieldCandidates(fields, k) ==
    IF k > Len(fields) THEN <<>>
    ELSE (IF "name" \in DOMAIN fields[k] /\ fields[k].name # <<>>
          THEN <<fields[k].name>> ELSE <<>>)
         \o (IF "value" \in DOMAIN fields[k] /\ fields[k].value # <<>>
             THEN <<fields[k].value>> ELSE <<>>)
         \o FieldCandidates(fields, k + 1)

\* a plausible variant of lines 96-99: the title is appended before the description
EmbedCandidatesTitleFirst(d) ==
    (IF "title" \in DOMAIN d /\ d.title # <<>> THEN <<d.title>> ELSE <<>>)
    \o (IF "description" \in DOMAIN d /\ d.description # <<>> THEN <<d.description>> ELSE <<>>)
    \o (IF "footer" \in DOMAIN d /\ "text" \in DOMAIN d.footer THEN <<d.footer.text>> ELSE <<>>)
    \o (IF "author" \in DOMAIN d /\ "name" \in DOMAIN d.author THEN <<d.author.name>> ELSE <<>>)
    \o FieldCandidates(IF "fields" \in DOMAIN d THEN d.fields ELSE <<>>, 1)

\* lines 95-111: the candidates one embed appends
EmbedCandidates(d) ==
    (IF "description" \in DOMAIN d /\ d.description # <<>> THEN <<d.description>> ELSE <<>>)
    \o (IF "title" \in DOMAIN d /\ d.title # <<>> THEN <<d.title>> ELSE <<>>)
    \o (IF "footer" \in DOMAIN d /\ "text" \in DOMAIN d.footer THEN <<d.footer.text>> ELSE <<>>)
    \o (IF "author" \in DOMAIN d /\ "name" \in DOMAIN d.author THEN <<d.author.name>> ELSE <<>>)
    \o FieldCandidates(IF "fields" \in DOMAIN d THEN d.fields ELSE <<>>, 1)

RECURSIVE EmbedsCandidates(_, _)
EmbedsCandidates(embeds, k) ==
    IF k > Len(embeds) THEN <<>>
    ELSE EmbedCandidates(embeds[k]) \o EmbedsCandidates(embeds, k + 1)

\* lines 93-111
text_candidates(msg) == <<msg.content>> \o EmbedsCandidates(msg.embeds, 1)

\* lines 113-118: the texts the extractor is called with, and bot_name after the loop
FindBotName(candidates) ==
    LET hits == {i \in DOMAIN candidates : extract_bot_name_from_text(candidates[i]) # None}
    IN  IF hits = {}
        THEN [calls |-> candidates, bot_name |-> None]
        ELSE LET first == CHOOSE i \in hits : \A j \in hits : i <= j
             IN  [calls |-> SubSeq(candidates, 1, first),
                  bot_name |-> extract_bot_name_from_text(candidates[first])]

\* lines 52-53: what webhook.send is given
Payload(msg) ==
    [content |-> IF msg.content = <<>> THEN None ELSE Some(msg.content),
     embeds |-> IF msg.embeds = <<>> THEN None ELSE Some(msg.embeds)]

\* what is remembered of the handler that has just ended, for comparison
\* with the next one
Handled ==
    IF message = None THEN None
    ELSE Some([message |-> TheVal(message), attempts |-> attempts, sends |-> sends])

\* lines 83-125: the event is dispatched and the handler runs up to the loop
\* over the clients, or returns
OnMessage(msg) ==
    /\ pc = "idle"
    /\ message' = Some(msg)
    /\ last' = Handled
    /\ attempts' = <<>>
    /\ sends' = <<>>
    /\ inflight' = {}
    /\ raised' = None
    /\ match_found' = FALSE
    /\ ui' = 0
    /\ UNCHANGED <<clients_config, fn_vars>>
    /\ IF Dropped(msg)
       THEN /\ pc' = "idle"
            /\ extract_calls' = <<>>
            /\ bot_name' = None
            /\ lname' = <<>>
            /\ ci' = 0
            /\ log' = <<>>
       ELSE LET found == FindBotName(text_candidates(msg))
            IN  /\ extract_calls' = found.calls
                /\ bot_name' = found.bot_name
                /\ IF found.bot_name = None
                   THEN /\ pc' = "idle"
                        /\ lname' = <<>>
                        /\ ci' = 0
                        /\ log' = << <<"info_processing">> >>
                   ELSE /\ pc' = "clients"
                        /\ lname' = Lower(TheVal(found.bot_name))
                        /\ ci' = 1
                        /\ log' = << <<"info_processing">>, <<"debug_found">>,
                                     <<"debug_lower">> >>

\* lines 129-131 and 136-137: one client of the loop that has no delivery to make
NextClient ==
    /\ pc = "clients"
    /\ ci <= Len(clients_config)
    /\ LET config == clients_config[ci]
       IN  IF lname \in config.names
           THEN IF config.webhook # <<>>
                THEN /\ log' = Append(log, <<"info_match", config.name>>)
                     /\ ui' = 1
                     /\ pc' = "urls"
                     /\ ci' = ci
                ELSE /\ log' = log \o << <<"info_match", config.name>>,
                                         <<"warning_no_webhook", config.name>> >>
                     /\ ci' = ci + 1
                     /\ UNCHANGED <<ui, pc>>
           ELSE /\ ci' = ci + 1
                /\ UNCHANGED <<log, ui, pc>>
    /\ UNCHANGED <<clients_config, message, extract_calls, bot_name, lname, match_found,
                   attempts, sends, inflight, raised, last, fn_vars>>

\* a plausible variant of line 134: the delivery is started as a task of its
\* own and the loop goes on without awaiting it
SendStartNoAwait ==
    /\ pc = "urls"
    /\ ui <= Len(clients_config[ci].webhook)
    /\ LET url == clients_config[ci].webhook[ui]
       IN  /\ attempts' = Append(attempts, url)
           /\ IF ValidWebhookUrl(url)
              THEN /\ sends' = Append(sends, [url |-> url, payload |-> Payload(TheVal(message))])
                   /\ inflight' = inflight \cup {Len(sends) + 1}
                   /\ log' = Append(log, <<"debug_sending", url>>)
                   /\ ui' = ui + 1
                   /\ UNCHANGED <<pc, raised>>
              ELSE /\ log' = Append(log, <<"debug_sending", url>>)
                   /\ ui' = ui + 1
                   /\ UNCHANGED <<sends, inflight, pc, raised>>
    /\ UNCHANGED <<clients_config, message, extract_calls, bot_name, lname, ci,
                   match_found, last, fn_vars>>

\* lines 133-134 and 46-55: send_to_webhook is called with the next url of the
\* matched client.  from_url, outside the try of line 50, either raises, and
\* the exception leaves send_to_webhook and on_message, or gives the webhook
\* whose send is awaited.
SendStart ==
    /\ pc = "urls"
    /\ ui <= Len(clients_config[ci].webhook)
    /\ LET url == clients_config[ci].webhook[ui]
       IN  /\ attempts' = Append(attempts, url)
           /\ log' = Append(log, <<"debug_sending", url>>)
           /\ IF ValidWebhookUrl(url)
              THEN /\ sends' = Append(sends, [url |-> url, payload |-> Payload(TheVal(message))])
                   /\ inflight' = inflight \cup {Len(sends) + 1}
                   /\ pc' = "await"
                   /\ raised' = None
              ELSE /\ pc' = "idle"
                   /\ raised' = Some("ValueError")
                   /\ UNCHANGED <<sends, inflight>>
    /\ UNCHANGED <<clients_config, message, extract_calls, bot_name, lname, ci, ui,
                   match_found, last, fn_vars>>

\* lines 51-58: a webhook.send in flight resolves, with a response or with an
\* exception that line 57 catches; the handler that awaits it goes on to the
\* next url
SendResolve(k, ok) ==
    /\ k \in inflight
    /\ inflight' = inflight \ {k}
    /\ log' = Append(log, IF ok THEN <<"info_sent", sends[k].url>>
                                ELSE <<"error_failed", sends[k].url>>)
    /\ IF pc = "await"
       THEN /\ pc' = "urls"
            /\ ui' = ui + 1
       ELSE UNCHANGED <<pc, ui>>
    /\ UNCHANGED <<clients_config, message, extract_calls, bot_name, lname, ci,
                   match_found, attempts, sends, raised, last, fn_vars>>

\* line 135: the urls of the matched client are exhausted
EndUrls ==
    /\ pc = "urls"
    /\ ui > Len(clients_config[ci].webhook)
    /\ match_found' = TRUE
    /\ ci' = ci + 1
    /\ pc' = "clients"
    /\ UNCHANGED <<clients_config, message, extract_calls, bot_name, lname, ui,
                   attempts, sends, inflight, log, raised, last, fn_vars>>

\* lines 139-140: the loop over the clients has ended
Finish ==
    /\ pc = "clients"
    /\ ci > Len(clients_config)
    /\ pc' = "idle"
    /\ log' = IF ~match_found THEN Append(log, <<"info_not_found">>) ELSE log
    /\ UNCHANGED <<clients_config, message, extract_calls, bot_name, lname, ci, ui,
                   match_found, attempts, sends, inflight, raised, last, fn_vars>>

-----------------------------------------------------------------------------
(* The forwarder: main() builds the registry from the environment, and the *)
(* client then handles the messages the gateway delivers.                  *)

Foo == <<"F","o","o">>

BoldBar == <<"*","*","B","A","R","*","*">>

Zed == <<"Z","e","d">>

u1 == <<"u","1">>

u2 == <<"u","2">>

u3 == <<"u","3">>

Comma == <<",">>

MainFileSystem ==
    (PathJoin(BaseDir, <<"a">>) :> File(<< Foo >>, None))
    @@ (<<"/","b">> :> File(<< <<"f","o","o">>, <<" ","B","a","r"," ">> >>, None))

EnvVar(prefix, client, value) == <<prefix \o client, value>>

MainEnvs ==
    { << EnvVar(WebhookPrefix, ClientA, u1), EnvVar(ListPrefix, ClientA, <<"a">>),
         EnvVar(WebhookPrefix, ClientB, u2 \o Comma \o u3),
         EnvVar(ListPrefix, ClientB, <<"/","b">>) >>,
      << EnvVar(WebhookPrefix, ClientA, <<>>), EnvVar(ListPrefix, ClientA, <<"a">>) >>,
      << EnvVar(WebhookPrefix, ClientA, <<"v","1">> \o Comma \o u1),
         EnvVar(ListPrefix, ClientA, <<"a">>),
         EnvVar(WebhookPrefix, ClientB, u2), EnvVar(ListPrefix, ClientB, <<"/","b">>) >>,
      << EnvVar(ListPrefix, ClientB, <<"/","b">>),
         EnvVar(WebhookPrefix, ClientB, u1 \o <<","," ">> \o u1),
         EnvVar(WebhookPrefix, ClientA, <<" ",","," ">>),
         EnvVar(ListPrefix, ClientA, <<"a">>),
         EnvVar(WebhookPrefix, <<"C">>, u3) >>,
      <<>> }

Messages ==
    [ author : {Self, "someone"},
      channel : {source_channel_id, "chan_other"},
      content : {<<>>, Sentence(Foo, TRUE), <<"h","i">>},
      embeds : { <<>>,
                 << [description |-> Sentence(BoldBar, TRUE)] >>,
                 << [title |-> Sentence(Zed, TRUE)] >> } ]

Init ==
    /\ clients_config \in {load_clients_from_env(env, MainFileSystem).clients : env \in MainEnvs}
    /\ pc = "idle"
    /\ message = None
    /\ extract_calls = <<>>
    /\ bot_name = None
    /\ lname = <<>>
    /\ ci = 0
    /\ ui = 0
    /\ match_found = FALSE
    /\ attempts = <<>>
    /\ sends = <<>>
    /\ inflight = {}
    /\ log = <<>>
    /\ raised = None
    /\ last = None
    /\ fn_in = None
    /\ fn_out = None
    /\ fn_done = FALSE

Next ==
    \/ \E msg \in Messages : OnMessage(msg)
    \/ NextClient
    \/ SendStart
    \/ \E k \in inflight, ok \in BOOLEAN : SendResolve(k, ok)
    \/ EndUrls
    \/ Finish

Spec == Init /\ [][Next]_vars

-----------------------------------------------------------------------------
(* Claims about routing and delivery, under Spec.                          *)

\* the handler of the current message has ended
HandlerEnded == pc = "idle" /\ message # None

\* the current message passed the filter and a token was found in it
Routed == HandlerEnded /\ ~Dropped(TheVal(message)) /\ bot_name # None

\* the targets of the destinations whose names hold token, destinations in
\* registry order from the k-th on, targets in list order
RECURSIVE MatchedTargets(_, _, _)
MatchedTargets(registry, token, k) ==
    IF k > Len(registry) THEN <<>>
    ELSE (IF token \in registry[k].names THEN registry[k].webhook ELSE <<>>)
         \o MatchedTargets(registry, token, k + 1)

\* C1: a routed message is delivered to exactly the targets of the matched
\* destinations, once per entry, in registry and list order; with
\* A = ({foo}, [u1]), B = ({foo, bar}, [u2, u3]) and token foo the attempts are
\* u1, u2, u3.
C1_RoutesToAllMatched ==
    Routed => attempts = MatchedTargets(clients_config, Lower(TheVal(bot_name)), 1)

\* C2: a message of the bot itself or of another channel causes no call of the
\* extractor and no call of send_to_webhook.
C2_DroppedDoesNothing ==
    (message # None /\ (TheVal(message).author = Self
                          \/ TheVal(message).channel # source_channel_id))
        => /\ extract_calls = <<>>
           /\ attempts = <<>>
           /\ sends = <<>>
           /\ inflight = {}
           /\ pc = "idle"

\* a message of another channel that names a bot of both clients was dropped
C2_Witness ==
    /\ message = Some([author |-> "someone", channel |-> "chan_other",
                       content |-> Sentence(Foo, TRUE), embeds |-> <<>>])
    /\ Len(clients_config) = 2
    /\ MatchedTargets(clients_config, <<"f","o","o">>, 1) = <<u1, u2, u3>>
    /\ last # None
    /\ pc = "idle"

\* a delivery of the current message failed: the send was rejected or the
\* target was unreachable (line 57), or the url was rejected by from_url
DeliveryFailed ==
    \/ raised # None
    \/ \E i \in DOMAIN log : log[i][1] = "error_failed"

\* C3: a failed delivery neither escapes on_message nor prevents any of the
\* remaining deliveries of the message.
C3_FailureIsolated ==
    (HandlerEnded /\ bot_name # None /\ DeliveryFailed)
        => /\ raised = None
           /\ attempts = MatchedTargets(clients_config, lname, 1)

\* C5: a matched destination without targets gets no delivery and the message
\* is not reported as matching no destination.
C5_EmptyTargetsStillMatched ==
    (Routed /\ raised = None
       /\ \E i \in DOMAIN clients_config : lname \in clients_config[i].names)
        => /\ \A i \in DOMAIN log : log[i] # <<"info_not_found">>
           /\ Len(attempts) = Len(MatchedTargets(clients_config, lname, 1))

\* the same message was handled twice in a row and both handlers have ended
Replayed ==
    /\ HandlerEnded
    /\ last # None
    /\ TheVal(last).message = TheVal(message)

\* C8: replaying a message gives the same delivery attempts, in the same order
\* and with the same payload, as the first time; the handler changes neither
\* the registry nor the message.
C8_ReplayIdentical ==
    /\ [](Replayed => /\ attempts = TheVal(last).attempts
                      /\ sends = TheVal(last).sends
                      /\ \A i \in DOMAIN sends :
                            sends[i].payload = Payload(TheVal(message)))
    /\ [][/\ clients_config' = clients_config
          /\ pc # "idle" => message' = message]_vars

\* a message routed to three targets was handled twice
C8_Witness ==
    /\ Replayed
    /\ attempts = <<u1, u2, u3>>
    /\ Len(sends) = 3
    /\ TheVal(message).embeds # <<>>

\* a delivery of the current message remains to be started
MoreToDeliver ==
    /\ pc \in {"urls", "await"}
    /\ \/ ui < Len(clients_config[ci].webhook)
       \/ \E j \in (ci + 1)..Len(clients_config) :
             lname \in clients_config[j].names /\ clients_config[j].webhook # <<>>

\* C10 as claimed: the handler does not wait for a delivery in flight before it
\* starts the next one.
C10_FireAndForget ==
    (inflight # {} /\ MoreToDeliver) => pc # "await"

\* C10 as amended: the handler is suspended on the one delivery in flight, the
\* last one started, and starts no other before that one has resolved.
C10_OneAtATime ==
    /\ inflight # {} => (pc = "await" /\ inflight = {Len(sends)})
    /\ pc = "await" => inflight = {Len(sends)}
    /\ Len(attempts) >= Len(sends)

\* the second of three deliveries is in flight and the third has not started
C10_Witness ==
    /\ pc = "await"
    /\ inflight = {2}
    /\ attempts = <<u1, u2>>
    /\ MatchedTargets(clients_config, lname, 1) = <<u1, u2, u3>>

-----------------------------------------------------------------------------
(* Specification of the choice of the token among the texts of a message:  *)
(* one registry, one message, and every combination of the texts a message *)
(* can carry.  The text of each place names a bot of its own, so that the  *)
(* token tells the place it was found in.                                  *)

NoKey == [k \in {} |-> <<>>]

Hi == <<"h","i">>

Naming(a, b) == Sentence(<<a, b>>, TRUE)

FirstEmbeds ==
    { d @@ t @@ f @@ a @@ fs :
        d \in { NoKey, "description" :> Naming("d","1"), "description" :> Hi,
                "description" :> <<>> },
        t \in { NoKey, "title" :> Naming("t","1"), "title" :> Hi },
        f \in { NoKey, "footer" :> ("text" :> Naming("f","1")),
                "footer" :> ("icon_url" :> <<"x">>), "footer" :> ("text" :> <<>>) },
        a \in { NoKey, "author" :> ("name" :> Naming("a","1")), "author" :> ("name" :> Hi) },
        fs \in { NoKey, "fields" :> <<>>,
                 "fields" :> << [name |-> Naming("n","1"), value |-> Naming("v","1")] >>,
                 "fields" :> << [name |-> Hi, value |-> Naming("v","1")],
                                [name |-> Naming("n","2"), value |-> Hi] >> } }

SecondEmbeds ==
    { [title |-> Naming("t","2"), description |-> Naming("d","2")],
      [title |-> Naming("t","2")] }

FragmentMessages ==
    [ author : {"someone"},
      channel : {source_channel_id},
      content : {<<>>, Hi, Naming("c","0")},
      embeds : {<<>>} \cup { <<e>> : e \in FirstEmbeds }
                      \cup { <<e, g>> : e \in FirstEmbeds, g \in SecondEmbeds } ]

FragmentsFileSystem ==
    (PathJoin(BaseDir, <<"a">>) :>
        File(<< <<"c","0">>, <<"d","1">>, <<"t","2">>, <<"v","1">> >>, None))
    @@ (<<"/","b">> :> File(<< <<"t","1">>, <<"d","1">>, <<"n","2">> >>, None))

FragmentsEnv ==
    << EnvVar(WebhookPrefix, ClientA, u1), EnvVar(ListPrefix, ClientA, <<"a">>),
       EnvVar(WebhookPrefix, ClientB, <<>>), EnvVar(ListPrefix, ClientB, <<"/","b">>) >>

InitFragments ==
    /\ clients_config = load_clients_from_env(FragmentsEnv, FragmentsFileSystem).clients
    /\ pc = "idle"
    /\ message = None
    /\ extract_calls = <<>>
    /\ bot_name = None
    /\ lname = <<>>
    /\ ci = 0
    /\ ui = 0
    /\ match_found = FALSE
    /\ attempts = <<>>
    /\ sends = <<>>
    /\ inflight = {}
    /\ log = <<>>
    /\ raised = None
    /\ last = None
    /\ fn_in = None
    /\ fn_out = None
    /\ fn_done = FALSE

NextFragments ==
    \/ \E msg \in FragmentMessages : message = None /\ OnMessage(msg)
    \/ NextClient
    \/ SendStart
    \/ \E k \in inflight, ok \in BOOLEAN : SendResolve(k, ok)
    \/ EndUrls
    \/ Finish

SpecFragments == InitFragments /\ [][NextFragments]_vars

-----------------------------------------------------------------------------
(* C9 *)

\* the text of one place of an embed, when the embed has that place
C9_Place(d, key) ==
    IF key \in {"title", "description"}
    THEN IF key \in DOMAIN d THEN <<d[key]>> ELSE <<>>
    ELSE IF key = "footer"
    THEN IF "footer" \in DOMAIN d /\ "text" \in DOMAIN d.footer THEN <<d.footer.text>> ELSE <<>>
    ELSE IF "author" \in DOMAIN d /\ "name" \in DOMAIN d.author THEN <<d.author.name>> ELSE <<>>

RECURSIVE C9_Fields(_, _)
C9_Fields(fields, k) ==
    IF k > Len(fields) THEN <<>>
    ELSE <<fields[k].name, fields[k].value>> \o C9_Fields(fields, k + 1)

RECURSIVE C9_Blocks(_, _, _)
C9_Blocks(embeds, k, order) ==
    IF k > Len(embeds) THEN <<>>
    ELSE C9_Place(embeds[k], order[1]) \o C9_Place(embeds[k], order[2])
         \o C9_Place(embeds[k], order[3]) \o C9_Place(embeds[k], order[4])
         \o C9_Fields(IF "fields" \in DOMAIN embeds[k] THEN embeds[k].fields ELSE <<>>, 1)
         \o C9_Blocks(embeds, k + 1, order)

\* the fragments of a message in priority order: the content, then the places
\* of each embed in the given order, then its fields
C9_Fragments(msg, order) == <<msg.content>> \o C9_Blocks(msg.embeds, 1, order)

\* the token is the one of the first fragment, in the given order, that yields
\* one; no fragment after it is handed to the extractor; a message without a
\* yielding fragment is not delivered
C9_FirstYieldWins(order) ==
    (message # None /\ ~Dropped(TheVal(message))) =>
        LET frs == C9_Fragments(TheVal(message), order)
            yields == {i \in DOMAIN frs : extract_bot_name_from_text(frs[i]) # None}
        IN  IF yields = {}
            THEN bot_name = None /\ pc = "idle" /\ attempts = <<>> /\ sends = <<>>
            ELSE LET first == CHOOSE i \in yields : \A j \in yields : i <= j
                 IN  /\ bot_name = extract_bot_name_from_text(frs[first])
                     /\ lname = Lower(TheVal(bot_name))
                     /\ extract_calls # <<>>
                     /\ extract_calls[Len(extract_calls)] = frs[first]
                     /\ \A c \in DOMAIN extract_calls :
                           \E j \in 1..first : frs[j] = extract_calls[c]
                     /\ attempts # <<>> =>
                           \E i \in DOMAIN clients_config : lname \in clients_config[i].names

\* C9 as claimed: content first, then for each block its title, description,
\* footer text, author name and fields.
C9_TitleBeforeDescription ==
    C9_FirstYieldWins(<<"title", "description", "footer", "author">>)

\* C9 as amended: content first, then for each block its description, title,
\* footer text, author name and fields.
C9_DescriptionBeforeTitle ==
    C9_FirstYieldWins(<<"description", "title", "footer", "author">>)

\* the description and the title of a block both name a bot and the content
\* names none: the bot of the description was routed
C9_Witness ==
    /\ HandlerEnded
    /\ TheVal(message).content = Hi
    /\ Len(TheVal(message).embeds) = 1
    /\ "title" \in DOMAIN TheVal(message).embeds[1]
    /\ "description" \in DOMAIN TheVal(message).embeds[1]
    /\ TheVal(message).embeds[1].title = Naming("t","1")
    /\ bot_name = Some(<<"d","1">>)
    /\ attempts = <<u1>>

====
